---- MODULE Spec2Model ----
(***************************************************************************)
(* Model of bulk_card_and_file_report.py: ingestion of the host file, the   *)
(* per-device loop over the remote-session collaborator, the line parser    *)
(* of "show card detail" and the rendering of the HTML table.               *)
(*                                                                          *)
(* Text is modelled as a sequence of atoms.  An atom is a single character  *)
(* (" ", ":", "-", ",", "%", "#", a digit, a newline) or a word that the   *)
(* regular expressions of the script treat as a unit ("Flash", "cf2",       *)
(* "Administrative State", "not equipped", ...).  A line is a sequence of   *)
(* atoms, a command output is the sequence of its lines (the result of      *)
(* str.splitlines()).                                                       *)
(***************************************************************************)
EXTENDS Integers, Sequences, FiniteSets, TLC

VARIABLES
    hostfile,       \* my_routers.txt: the sequence of its lines
    routers,        \* the ingested device list
    pc,             \* position of the script
    idx,            \* position of the device loop in routers
    conn,           \* id of the session bound to conn (0: none yet)
    open_sessions,  \* collaborator: ids of the sessions currently open
    calls,          \* collaborator: log of the calls made on it
    unreachable, not_equipped, raw_card, raw_files, summary,
    card_out,       \* card_out.splitlines() of the current device
    lineno,         \* position of the parser loop in card_out
    rec, missing, current_flash,
    written         \* the three files written at the end

vars == <<hostfile, routers, pc, idx, conn, open_sessions, calls,
          unreachable, not_equipped, raw_card, raw_files, summary,
          card_out, lineno, rec, missing, current_flash, written>>

\* ---------------------------------------------------------------- bounds
MaxFileLines == 3      \* lines of the host file in the ingestion specification
MaxHosts == 2          \* lines of the host file in the device-loop specification
MaxParseLines == 3     \* lines of a card output in the parser specification

\* ------------------------------------------------- configuration constants
EXP_CF2_SIZE_MB == 3904
EXP_CF3_SIZE_MB == 7800
CF2_TOLERANCE == 1
CF3_TOLERANCE == 1
PCT_THRESHOLD == 60

None == "None"

\* ------------------------------------------------------------ text helpers
\* str.strip() removes leading and trailing whitespace.
IsSpace(c) == c \in {" ", "\t", "\n"}

RECURSIVE LStrip(_)
LStrip(s) == IF s # <<>> /\ IsSpace(Head(s)) THEN LStrip(Tail(s)) ELSE s

RECURSIVE RStrip(_)
RStrip(s) ==
    IF s # <<>> /\ IsSpace(s[Len(s)]) THEN RStrip(SubSeq(s, 1, Len(s) - 1)) ELSE s

Strip(s) == RStrip(LStrip(s))

\* str.lower() (and the IGNORECASE flag), atom by atom.
LowerAtom(c) ==
    CASE c = "Card" -> "card"
      [] c = "Flash" -> "flash"
      [] c = "CF2" -> "cf2"
      [] c = "CF3" -> "cf3"
      [] c = "Administrative State" -> "administrative state"
      [] c = "Operational state" -> "operational state"
      [] c = "Size" -> "size"
      [] c = "MB" -> "mb"
      [] c = "Percent Used" -> "percent used"
      [] c = "Up" -> "up"
      [] c = "Not Equipped" -> "not equipped"
      [] OTHER -> c

Lower(s) == [i \in 1..Len(s) |-> LowerAtom(s[i])]

\* Index of the first atom of s at or after i that is not whitespace (\s*).
RECURSIVE SkipSpaces(_, _)
SkipSpaces(s, i) ==
    IF i <= Len(s) /\ IsSpace(s[i]) THEN SkipSpaces(s, i + 1) ELSE i

\* --------------------------------------------------------- host file
\* l.startswith("#")
StartsWithHash(l) == l # <<>> /\ l[1] = "#"

KeepLine(l) == Strip(l) # <<>> /\ ~StartsWithHash(l)

RECURSIVE ReadRoutersFrom(_)
ReadRoutersFrom(f) ==
    IF f = <<>> THEN <<>>
    ELSE IF KeepLine(Head(f))
         THEN <<Strip(Head(f))>> \o ReadRoutersFrom(Tail(f))
         ELSE ReadRoutersFrom(Tail(f))

\* Lines a host file is made of.
FileLines ==
    { <<"r1", "\n">>,
      <<" ", "r2", " ", "\n">>,
      <<"\n">>,
      <<" ", "\t", "\n">>,
      <<"#", "r1", "\n">>,
      <<" ", "#", "r2", "\n">> }

RECURSIVE SeqsUpTo(_, _)
SeqsUpTo(S, n) ==
    IF n = 0 THEN { <<>> }
    ELSE LET shorter == SeqsUpTo(S, n - 1)
         IN  shorter \cup { Append(q, x) : q \in shorter, x \in S }

HostFiles == SeqsUpTo(FileLines, MaxFileLines)

\* ---------------------------------------------------------- regexes
\* A word character starts the atom (\b of r_card).
IsWordAtom(c) == c \notin {" ", "\t", "\n", ":", "-", ",", "%", "#", "/"}

\* r_card = ^Card\b, IGNORECASE
MatchCard(s) ==
    /\ s # <<>>
    /\ LowerAtom(s[1]) = "card"
    /\ (Len(s) = 1 \/ ~IsWordAtom(s[2]))

\* s.startswith("Hardware Data")
StartsWithHardwareData(s) == s # <<>> /\ s[1] = "Hardware Data"

\* r_flash = ^Flash\s*-\s*(cf[23]), IGNORECASE: group(1), or None.
FlashGroup(s) ==
    IF s # <<>> /\ LowerAtom(s[1]) = "flash"
    THEN LET i == SkipSpaces(s, 2)
         IN  IF i <= Len(s) /\ s[i] = "-"
             THEN LET j == SkipSpaces(s, i + 1)
                  IN  IF j <= Len(s) /\ LowerAtom(s[j]) \in {"cf2", "cf3"}
                      THEN s[j]
                      ELSE None
             ELSE None
    ELSE None

\* Position after "<label>\s*:\s*" when the label stands at i, else 0.
AfterLabel(s, i, label) ==
    IF LowerAtom(s[i]) = label
    THEN LET j == SkipSpaces(s, i + 1)
         IN  IF j <= Len(s) /\ s[j] = ":" THEN SkipSpaces(s, j + 1) ELSE 0
    ELSE 0

Min(S) == CHOOSE x \in S : \A y \in S : x <= y

\* A search without a match; every capture group of the script is non-empty.
NoMatch == <<>>

\* r_admin / r_op = <label>\s*:\s*(.+), IGNORECASE, search: group(1), or NoMatch.
StateGroup(s, label) ==
    LET hits == { i \in 1..Len(s) :
                    AfterLabel(s, i, label) # 0 /\ AfterLabel(s, i, label) <= Len(s) }
    IN  IF hits = {} THEN NoMatch
        ELSE SubSeq(s, AfterLabel(s, Min(hits), label), Len(s))

AdminGroup(s) == StateGroup(s, "administrative state")
OpGroup(s) == StateGroup(s, "operational state")

Digits == {"0", "1", "2", "3", "4", "5", "6", "7", "8", "9"}

\* End (exclusive) of the longest run of atoms of S starting at i.
RECURSIVE RunEnd(_, _, _)
RunEnd(s, i, S) == IF i <= Len(s) /\ s[i] \in S THEN RunEnd(s, i + 1, S) ELSE i

\* <label>\s*:\s*(<S>+)\s*<unit>, IGNORECASE, search: group(1), or NoMatch.
NumberMatchAt(s, i, label, S, unit) ==
    LET k == AfterLabel(s, i, label)
        e == RunEnd(s, k, S)
        m == SkipSpaces(s, e)
    IN  k # 0 /\ e > k /\ m <= Len(s) /\ LowerAtom(s[m]) = unit

NumberGroup(s, label, S, unit) ==
    LET hits == { i \in 1..Len(s) : NumberMatchAt(s, i, label, S, unit) }
    IN  IF hits = {} THEN NoMatch
        ELSE LET k == AfterLabel(s, Min(hits), label)
             IN  SubSeq(s, k, RunEnd(s, k, S) - 1)

\* r_size = Size\s*:\s*([\d,]+)\s*MB
SizeGroup(s) == NumberGroup(s, "size", Digits \cup {","}, "mb")
\* r_pct = Percent Used\s*:\s*(\d+)\s*%
PctGroup(s) == NumberGroup(s, "percent used", Digits, "%")

\* ------------------------------------------------------- conversions
DigitVal(c) ==
    CASE c = "0" -> 0 [] c = "1" -> 1 [] c = "2" -> 2 [] c = "3" -> 3 [] c = "4" -> 4
      [] c = "5" -> 5 [] c = "6" -> 6 [] c = "7" -> 7 [] c = "8" -> 8 [] c = "9" -> 9

DigitChar(n) ==
    CASE n = 0 -> "0" [] n = 1 -> "1" [] n = 2 -> "2" [] n = 3 -> "3" [] n = 4 -> "4"
      [] n = 5 -> "5" [] n = 6 -> "6" [] n = 7 -> "7" [] n = 8 -> "8" [] n = 9 -> "9"

\* str.replace(",", "")
RECURSIVE RemoveCommas(_)
RemoveCommas(s) ==
    IF s = <<>> THEN <<>>
    ELSE IF Head(s) = "," THEN RemoveCommas(Tail(s))
         ELSE <<Head(s)>> \o RemoveCommas(Tail(s))

\* int() of a non-empty string of digits
RECURSIVE ParseInt(_)
ParseInt(ds) ==
    IF ds = <<>> THEN 0
    ELSE 10 * ParseInt(SubSeq(ds, 1, Len(ds) - 1)) + DigitVal(ds[Len(ds)])

\* f"{n}" of a natural number
RECURSIVE IntToStr(_)
IntToStr(n) ==
    IF n < 10 THEN <<DigitChar(n)>>
    ELSE IntToStr(n \div 10) \o <<DigitChar(n % 10)>>

Abs(x) == IF x < 0 THEN -x ELSE x

\* "not equip" in st
ContainsNotEquip(st) == \E i \in 1..Len(st) : st[i] \in {"not equipped", "not equip"}

\* ------------------------------------------------------------ record
Slots == <<"cf2", "cf3">>
Kinds == <<"size", "pct", "state">>
NA == <<"n/a">>

\* f"{cf}_{k}"
Key(cf, k) ==
    CASE cf = "cf2" /\ k = "size" -> "cf2_size"
      [] cf = "cf2" /\ k = "pct" -> "cf2_pct"
      [] cf = "cf2" /\ k = "state" -> "cf2_state"
      [] cf = "cf3" /\ k = "size" -> "cf3_size"
      [] cf = "cf3" /\ k = "pct" -> "cf3_pct"
      [] cf = "cf3" /\ k = "state" -> "cf3_state"

\* f"{key}_ok"
OkKey(key) ==
    CASE key = "cf2_size" -> "cf2_size_ok"
      [] key = "cf2_pct" -> "cf2_pct_ok"
      [] key = "cf2_state" -> "cf2_state_ok"
      [] key = "cf3_size" -> "cf3_size_ok"
      [] key = "cf3_pct" -> "cf3_pct_ok"
      [] key = "cf3_state" -> "cf3_state_ok"

ValueKeys == { Key(Slots[n], Kinds[k]) : n \in 1..2, k \in 1..3 }

NewRec(host) ==
    [device |-> host,
     cf2_size |-> NA, cf2_pct |-> NA, cf2_state |-> NA,
     cf3_size |-> NA, cf3_pct |-> NA, cf3_state |-> NA,
     cf2_size_ok |-> FALSE, cf2_pct_ok |-> FALSE, cf2_state_ok |-> FALSE,
     cf3_size_ok |-> FALSE, cf3_pct_ok |-> FALSE, cf3_state_ok |-> FALSE]

\* ------------------------------------------------------ threshold rules
StateOk(st) == st = <<"up">>

SizeOk(cf, sz) ==
    LET tol == IF cf = "cf2" THEN CF2_TOLERANCE ELSE CF3_TOLERANCE
        exp == IF cf = "cf2" THEN EXP_CF2_SIZE_MB ELSE EXP_CF3_SIZE_MB
    IN  Abs(sz - exp) <= tol

\* (variant: the ceiling itself passes)
PctOk_Inclusive(pct) == pct <= PCT_THRESHOLD

PctOk(pct) == pct < PCT_THRESHOLD

\* ------------------------------------------------------------ parser
\* One iteration of "for line in card_out.splitlines()" on the parser state
\* p = [rec, missing, current_flash].
StateLine(p, group) ==
    LET st == Lower(Strip(group))
        key == Key(p.current_flash, "state")
    IN  [p EXCEPT !.rec = [p.rec EXCEPT ![key] = st, ![OkKey(key)] = StateOk(st)],
                  !.missing = IF ContainsNotEquip(st)
                              THEN Append(p.missing, p.current_flash)
                              ELSE p.missing]

\* (variant: the size is stored under the pct key)
SizeLine_WrongKey(p, group) ==
    LET sz == ParseInt(RemoveCommas(group))
        key == Key(p.current_flash, "pct")
    IN  [p EXCEPT !.rec = [p.rec EXCEPT ![key] = IntToStr(sz) \o <<" ", "MB">>,
                                        ![OkKey(key)] = SizeOk(p.current_flash, sz)]]

SizeLine(p, group) ==
    LET sz == ParseInt(RemoveCommas(group))
        key == Key(p.current_flash, "size")
    IN  [p EXCEPT !.rec = [p.rec EXCEPT ![key] = IntToStr(sz) \o <<" ", "MB">>,
                                        ![OkKey(key)] = SizeOk(p.current_flash, sz)]]

PctLine(p, group) ==
    LET pct == ParseInt(group)
        key == Key(p.current_flash, "pct")
    IN  [p EXCEPT !.rec = [p.rec EXCEPT ![key] = IntToStr(pct) \o <<" ", "%">>,
                                        ![OkKey(key)] = PctOk(pct)]]

\* (variant: a hardware-data header does not reset the context)
ParseStep_NoHardware(p, line) ==
    LET s == Strip(line)
    IN  IF s = <<>> THEN p
        ELSE IF MatchCard(s)
        THEN [p EXCEPT !.current_flash = None]
        ELSE IF FlashGroup(s) # None
        THEN [p EXCEPT !.current_flash = LowerAtom(FlashGroup(s))]
        ELSE IF p.current_flash = None THEN p
        ELSE IF AdminGroup(s) # NoMatch THEN StateLine(p, AdminGroup(s))
        ELSE IF OpGroup(s) # NoMatch THEN StateLine(p, OpGroup(s))
        ELSE IF SizeGroup(s) # NoMatch THEN SizeLine(p, SizeGroup(s))
        ELSE IF PctGroup(s) # NoMatch THEN PctLine(p, PctGroup(s))
        ELSE p

ParseStep(p, line) ==
    LET s == Strip(line)
    IN  IF s = <<>> THEN p
        ELSE IF MatchCard(s) \/ StartsWithHardwareData(s)
        THEN [p EXCEPT !.current_flash = None]
        ELSE IF FlashGroup(s) # None
        THEN [p EXCEPT !.current_flash = LowerAtom(FlashGroup(s))]
        ELSE IF p.current_flash = None THEN p
        ELSE IF AdminGroup(s) # NoMatch THEN StateLine(p, AdminGroup(s))
        ELSE IF OpGroup(s) # NoMatch THEN StateLine(p, OpGroup(s))
        ELSE IF SizeGroup(s) # NoMatch THEN SizeLine(p, SizeGroup(s))
        ELSE IF PctGroup(s) # NoMatch THEN PctLine(p, PctGroup(s))
        ELSE p

\* ------------------------------------------------------------ commands
CMD_CARD == "show card detail | no-more"
CMD_FILES == "file list | no-more"

Call(op, host, arg) == [op |-> op, host |-> host, arg |-> arg]

\* "=== {host} ===\n{out}\n"
RawEntry(host, out) == [host |-> host, body |-> out]

\* Lines of "show card detail".
L_Blank == <<>>
L_Card == <<"Card", " ", "1">>
L_Hardware == <<"Hardware Data">>
L_Flash1 == <<"Flash", " ", "-", " ", "cf1", ":">>
L_Flash2 == <<"Flash", " ", "-", " ", "cf2", ":">>
L_Flash3 == <<"Flash", "-", "CF3", ":">>
L_AdminUp == <<" ", "Administrative State", " ", ":", " ", "Up">>
L_AdminNE == <<"Administrative State", ":", "not equipped">>
L_OpNE == <<"Operational state", ":", "Not Equipped">>
L_OpDown == <<"Operational state", ":", "down">>
L_Size3905 == <<"Size", ":", "3", ",", "9", "0", "5", " ", "MB">>
L_Size7798 == <<"Size", " ", ":", " ", "7", "7", "9", "8", "MB">>
L_Pct59 == <<"Percent Used", ":", "5", "9", "%">>
L_Pct60 == <<"Percent Used", " ", ":", " ", "0", "6", "0", " ", "%">>
L_Serial == <<"Serial number", ":", "x">>

CardLines ==
    { L_Blank, L_Card, L_Hardware, L_Flash1, L_Flash2, L_Flash3,
      L_AdminUp, L_AdminNE, L_OpNE, L_OpDown,
      L_Size3905, L_Size7798, L_Pct59, L_Pct60, L_Serial }

\* Outputs of "show card detail" in the parser specification.
ParseOutputs == SeqsUpTo(CardLines, MaxParseLines)

\* Outputs of "show card detail" in the device-loop specification.
LoopCardOutputs ==
    { <<>>,
      <<L_Flash2, L_AdminUp, L_Size3905, L_Pct59>>,
      <<L_Flash3, L_AdminNE, L_OpNE>>,
      <<L_Flash2, L_OpDown, L_Card, L_Size7798>>,
      <<L_Flash3, L_Flash1, L_Size7798, L_Pct60>> }

\* Outputs of "file list".
FileListOutputs == { <<>>, << <<"cf3:", "config.cfg">> >> }

\* Host files of the device-loop specification.
LoopFileLines ==
    { <<"r1", "\n">>, <<" ", "r2", " ", "\n">>, <<"#", "r1", "\n">>, <<" ", "#", "r2", "\n">> }
LoopFiles == SeqsUpTo(LoopFileLines, MaxHosts)

\* ------------------------------------------------------------ rendering
\* (variant: no 'warn' class)
Cell_NoWarn(r, key) ==
    LET val == r[key]
        ok == r[OkKey(key)]
    IN  IF ok THEN [cls |-> "ok", val |-> val, icon |-> "check"]
        ELSE [cls |-> "fail", val |-> val, icon |-> "warning"]

\* One status cell of the HTML table.
Cell(r, key) ==
    LET val == r[key]
        ok == r[OkKey(key)]
    IN  IF ContainsNotEquip(Lower(val)) THEN [cls |-> "warn", val |-> val, icon |-> "warning"]
        ELSE IF ok THEN [cls |-> "ok", val |-> val, icon |-> "check"]
        ELSE [cls |-> "fail", val |-> val, icon |-> "warning"]

DeviceCell(r) == [cls |-> None, val |-> r.device, icon |-> None]

Row(r) ==
    <<DeviceCell(r)>> \o
    [i \in 1..6 |-> Cell(r, Key(Slots[((i - 1) \div 3) + 1], Kinds[((i - 1) % 3) + 1]))]

Rows(s) == [i \in 1..Len(s) |-> Row(s[i])]

\* ------------------------------------------------------------ initial state
InitWith(f) ==
    /\ hostfile = f
    /\ routers = <<>>
    /\ pc = "read"
    /\ idx = 1
    /\ conn = 0
    /\ open_sessions = {}
    /\ calls = <<>>
    /\ unreachable = <<>>
    /\ not_equipped = <<>>
    /\ raw_card = <<>>
    /\ raw_files = <<>>
    /\ summary = <<>>
    /\ card_out = <<>>
    /\ lineno = 1
    /\ rec = None
    /\ missing = <<>>
    /\ current_flash = None
    /\ written = None

Init == \E f \in LoopFiles : InitWith(f)

\* ------------------------------------------------------------ actions
\* routers = [l.strip() for l in f if l.strip() and not l.startswith("#")]
ReadRouters ==
    /\ pc = "read"
    /\ routers' = ReadRoutersFrom(hostfile)
    /\ pc' = "loop"
    /\ UNCHANGED <<hostfile, idx, conn, open_sessions, calls, unreachable,
                   not_equipped, raw_card, raw_files, summary, card_out, lineno,
                   rec, missing, current_flash, written>>

\* conn = ConnectHandler(**device) returns a session.
ConnectOk ==
    /\ pc = "loop"
    /\ idx <= Len(routers)
    /\ calls' = Append(calls, Call("open", routers[idx], "ok"))
    /\ conn' = Len(calls) + 1
    /\ open_sessions' = open_sessions \cup {Len(calls) + 1}
    /\ pc' = "card"
    /\ UNCHANGED <<hostfile, routers, idx, unreachable, not_equipped, raw_card,
                   raw_files, summary, card_out, lineno, rec, missing,
                   current_flash, written>>

\* (variant: the loop is left on a failure, break instead of continue)
ConnectFail_Break ==
    /\ pc = "loop"
    /\ idx <= Len(routers)
    /\ \E e \in {"timeout", "authentication"} :
          calls' = Append(calls, Call("open", routers[idx], e))
    /\ unreachable' = Append(unreachable, routers[idx])
    /\ idx' = Len(routers) + 1
    /\ UNCHANGED <<hostfile, routers, pc, conn, open_sessions, not_equipped,
                   raw_card, raw_files, summary, card_out, lineno, rec, missing,
                   current_flash, written>>

\* ConnectHandler raises NetMikoTimeoutException or NetMikoAuthenticationException.
ConnectFail ==
    /\ pc = "loop"
    /\ idx <= Len(routers)
    /\ \E e \in {"timeout", "authentication"} :
          calls' = Append(calls, Call("open", routers[idx], e))
    /\ unreachable' = Append(unreachable, routers[idx])
    /\ idx' = idx + 1
    /\ UNCHANGED <<hostfile, routers, pc, conn, open_sessions, not_equipped,
                   raw_card, raw_files, summary, card_out, lineno, rec, missing,
                   current_flash, written>>

\* card_out = send("show card detail | no-more"), raw_card.append, rec = {...};
\* the device answers with one of the outputs of S.
SendCardFrom(S) ==
    /\ pc = "card"
    /\ \E out \in S :
          /\ card_out' = out
          /\ raw_card' = Append(raw_card, RawEntry(routers[idx], out))
    /\ calls' = Append(calls, Call("send", routers[idx], CMD_CARD))
    /\ rec' = NewRec(routers[idx])
    /\ missing' = <<>>
    /\ current_flash' = None
    /\ lineno' = 1
    /\ pc' = "parse"
    /\ UNCHANGED <<hostfile, routers, idx, conn, open_sessions, unreachable,
                   not_equipped, raw_files, summary, written>>

SendCard == SendCardFrom(LoopCardOutputs)

\* one iteration of the parser loop
ParseLine ==
    /\ pc = "parse"
    /\ lineno <= Len(card_out)
    /\ LET p == ParseStep([rec |-> rec, missing |-> missing,
                           current_flash |-> current_flash], card_out[lineno])
       IN  /\ rec' = p.rec
           /\ missing' = p.missing
           /\ current_flash' = p.current_flash
    /\ lineno' = lineno + 1
    /\ UNCHANGED <<hostfile, routers, pc, idx, conn, open_sessions, calls,
                   unreachable, not_equipped, raw_card, raw_files, summary,
                   card_out, written>>

\* (variant: summary.append(rec) only under "if missing")
EndParse_SummaryIfMissing ==
    /\ pc = "parse"
    /\ lineno > Len(card_out)
    /\ not_equipped' = IF missing # <<>>
                       THEN Append(not_equipped, <<routers[idx], missing>>)
                       ELSE not_equipped
    /\ summary' = IF missing # <<>> THEN Append(summary, rec) ELSE summary
    /\ pc' = "files"
    /\ UNCHANGED <<hostfile, routers, idx, conn, open_sessions, calls, unreachable,
                   raw_card, raw_files, card_out, lineno, rec, missing,
                   current_flash, written>>

\* if missing: not_equipped.append((host, missing)); summary.append(rec)
EndParse ==
    /\ pc = "parse"
    /\ lineno > Len(card_out)
    /\ not_equipped' = IF missing # <<>>
                       THEN Append(not_equipped, <<routers[idx], missing>>)
                       ELSE not_equipped
    /\ summary' = Append(summary, rec)
    /\ pc' = "files"
    /\ UNCHANGED <<hostfile, routers, idx, conn, open_sessions, calls, unreachable,
                   raw_card, raw_files, card_out, lineno, rec, missing,
                   current_flash, written>>

\* fl = send("file list | no-more"), raw_files.append
SendFiles ==
    /\ pc = "files"
    /\ \E fl \in FileListOutputs :
          raw_files' = Append(raw_files, RawEntry(routers[idx], fl))
    /\ calls' = Append(calls, Call("send", routers[idx], CMD_FILES))
    /\ pc' = "disconnect"
    /\ UNCHANGED <<hostfile, routers, idx, conn, open_sessions, unreachable,
                   not_equipped, raw_card, summary, card_out, lineno, rec, missing,
                   current_flash, written>>

\* (variant: the session is never disconnected)
Disconnect_Leak ==
    /\ pc = "disconnect"
    /\ idx' = idx + 1
    /\ pc' = "loop"
    /\ UNCHANGED <<hostfile, routers, conn, open_sessions, calls, unreachable,
                   not_equipped, raw_card, raw_files, summary, card_out, lineno,
                   rec, missing, current_flash, written>>

\* conn.disconnect(), then the next host
Disconnect ==
    /\ pc = "disconnect"
    /\ calls' = Append(calls, Call("disconnect", routers[idx], ""))
    /\ open_sessions' = open_sessions \ {conn}
    /\ idx' = idx + 1
    /\ pc' = "loop"
    /\ UNCHANGED <<hostfile, routers, conn, unreachable, not_equipped, raw_card,
                   raw_files, summary, card_out, lineno, rec, missing,
                   current_flash, written>>

\* after the loop: card_report.txt, file_lists.txt, report.html
WriteReports ==
    /\ pc = "loop"
    /\ idx > Len(routers)
    /\ written' = [card_report |-> raw_card,
                   file_lists |-> raw_files,
                   html_rows |-> Rows(summary),
                   html_unreachable |-> unreachable,
                   html_not_equipped |-> not_equipped]
    /\ pc' = "done"
    /\ UNCHANGED <<hostfile, routers, idx, conn, open_sessions, calls, unreachable,
                   not_equipped, raw_card, raw_files, summary, card_out, lineno,
                   rec, missing, current_flash>>

Next ==
    \/ ReadRouters
    \/ ConnectOk
    \/ ConnectFail
    \/ SendCard
    \/ ParseLine
    \/ EndParse
    \/ SendFiles
    \/ Disconnect
    \/ WriteReports

Spec == Init /\ [][Next]_vars

\* ------------------------------------------- ingestion specification
InitRead == \E f \in HostFiles : InitWith(f)
NextRead == ReadRouters
SpecRead == InitRead /\ [][NextRead]_vars

\* --------------------------------------------- parser specification
\* The session to the first device is open: the state after ConnectOk.  The
\* device answers with any output of at most MaxParseLines lines of CardLines.
InitParse ==
    /\ hostfile = << <<"r1", "\n">> >>
    /\ routers = << <<"r1">> >>
    /\ pc = "card"
    /\ idx = 1
    /\ conn = 1
    /\ open_sessions = {1}
    /\ calls = <<Call("open", <<"r1">>, "ok")>>
    /\ unreachable = <<>>
    /\ not_equipped = <<>>
    /\ raw_card = <<>>
    /\ raw_files = <<>>
    /\ summary = <<>>
    /\ card_out = <<>>
    /\ lineno = 1
    /\ rec = None
    /\ missing = <<>>
    /\ current_flash = None
    /\ written = None

SendCardAny == SendCardFrom(ParseOutputs)

NextParse == SendCardAny \/ ParseLine \/ EndParse
SpecParse == InitParse /\ [][NextParse]_vars

\* ====================================================================
\* Properties
\* ====================================================================
HostsOf(s) == [i \in 1..Len(s) |-> s[i].device]
RawHosts(s) == [i \in 1..Len(s) |-> s[i].host]
Last(s) == s[Len(s)]

\* r is an interleaving of a and b: every entry of r goes to exactly one of
\* a and b, and both keep the order of r.
RECURSIVE IsMerge(_, _, _)
IsMerge(a, b, r) ==
    IF r = <<>> THEN a = <<>> /\ b = <<>>
    ELSE \/ a # <<>> /\ Head(a) = Head(r) /\ IsMerge(Tail(a), b, Tail(r))
         \/ b # <<>> /\ Head(b) = Head(r) /\ IsMerge(a, Tail(b), Tail(r))

IsFailedOpen(c) == c.op = "open" /\ c.arg # "ok"
OpenCalls(c) == SelectSeq(c, LAMBDA x : x.op = "open")

\* ---- C1 ------------------------------------------------------------
\* The step in which opening the session to routers[idx] fails.
C1_FailStep ==
    /\ pc = "loop"
    /\ Len(calls') = Len(calls) + 1
    /\ IsFailedOpen(Last(calls'))

\* In the call log a failed open is followed by nothing but the next open; when
\* the script is done every host of the device list has had its open call.
C1_LogOk ==
    /\ \A i \in 1..(Len(calls) - 1) : IsFailedOpen(calls[i]) => calls[i + 1].op = "open"
    /\ pc = "done" =>
          /\ [i \in 1..Len(OpenCalls(calls)) |-> OpenCalls(calls)[i].host] = routers
          /\ Len(summary) + Len(unreachable) = Len(routers)

C1_Step ==
    C1_FailStep =>
        /\ Last(calls').host = routers[idx]
        /\ unreachable' = Append(unreachable, routers[idx])
        /\ summary' = summary
        /\ raw_card' = raw_card
        /\ raw_files' = raw_files
        /\ not_equipped' = not_equipped
        /\ open_sessions' = open_sessions
        /\ idx' = idx + 1
        /\ pc' = "loop"

\* C1: when opening the session to a host fails, the host is appended to
\* unreachable, no command is sent to it, no summary record and no raw-output
\* entry is created, and the loop goes on with the next host of the device list
\* until every host has been processed.
C1_ConnectFailure == []C1_LogOk /\ [][C1_Step]_vars

\* The first host failed and a later host was processed.
C1_Witness ==
    /\ pc = "done"
    /\ Len(routers) = 2
    /\ IsFailedOpen(calls[1])
    /\ unreachable = <<routers[1]>>
    /\ HostsOf(summary) = <<routers[2]>>

\* ---- C2 ------------------------------------------------------------
\* C2: after the device loop every entry of the device list is in exactly one
\* of summary and unreachable, both in device-list order, and raw_card,
\* raw_files and summary have the same length and name the same hosts in the
\* same order.
C2_Partition ==
    pc = "done" =>
        /\ IsMerge(HostsOf(summary), unreachable, routers)
        /\ Len(raw_card) = Len(summary)
        /\ Len(raw_files) = Len(summary)
        /\ RawHosts(raw_card) = HostsOf(summary)
        /\ RawHosts(raw_files) = HostsOf(summary)

\* The same host twice in the device list, unreachable once and reached once.
C2_Witness ==
    /\ pc = "done"
    /\ Len(routers) = 2
    /\ routers[1] = routers[2]
    /\ Len(unreachable) = 1
    /\ Len(summary) = 1
    /\ Len(raw_files) = 1

\* ---- C3 ------------------------------------------------------------
\* The calls of one session, in order.
SessionCalls(h) ==
    <<Call("open", h, "ok"), Call("send", h, CMD_CARD),
      Call("send", h, CMD_FILES), Call("disconnect", h, "")>>

\* c is a sequence of failed opens and complete sessions, the last session
\* possibly still under way.
RECURSIVE OneAtATime(_)
OneAtATime(c) ==
    IF c = <<>> THEN TRUE
    ELSE IF IsFailedOpen(Head(c)) THEN OneAtATime(Tail(c))
    ELSE LET n == IF Len(c) < 4 THEN Len(c) ELSE 4
         IN  /\ SubSeq(c, 1, n) = SubSeq(SessionCalls(Head(c).host), 1, n)
             /\ Len(c) > 4 => OneAtATime(SubSeq(c, 5, Len(c)))

\* C3: for every host whose session opens the calls are open, send 'show card
\* detail | no-more', send 'file list | no-more', disconnect, in that order;
\* a session is disconnected before the next is opened, at most one session is
\* open at any moment and none is open when the loop ends.
C3_OneAtATime ==
    /\ OneAtATime(calls)
    /\ Cardinality(open_sessions) <= 1
    /\ pc = "done" =>
          /\ open_sessions = {}
          /\ calls # <<>> => (IsFailedOpen(Last(calls)) \/ Last(calls).op = "disconnect")

\* Two sessions were opened, one after the other.
C3_Witness ==
    /\ pc = "done"
    /\ Len(summary) = 2
    /\ Len(calls) = 8

\* ---- C4 ------------------------------------------------------------
SlotOf(key) ==
    IF key \in {"cf2_size", "cf2_pct", "cf2_state"} THEN "cf2" ELSE "cf3"

KindOf(key) ==
    CASE key \in {"cf2_size", "cf3_size"} -> "size"
      [] key \in {"cf2_pct", "cf3_pct"} -> "pct"
      [] key \in {"cf2_state", "cf3_state"} -> "state"

\* The line matches the pattern of the field kind.
LineMatches(line, kind) ==
    LET s == Strip(line)
    IN  CASE kind = "state" -> AdminGroup(s) # NoMatch \/ OpGroup(s) # NoMatch
          [] kind = "size" -> SizeGroup(s) # NoMatch
          [] kind = "pct" -> PctGroup(s) # NoMatch

AllSentinel(r) == \A key \in ValueKeys : r[key] = NA /\ r[OkKey(key)] = FALSE

NoFieldLine(out) ==
    \A j \in 1..Len(out) : \A kind \in {"state", "size", "pct"} : ~LineMatches(out[j], kind)

C4_State ==
    /\ (pc = "parse" /\ lineno = 1) => AllSentinel(rec)
    /\ (pc = "files" /\ NoFieldLine(card_out)) => AllSentinel(Last(summary))

C4_Step ==
    (pc = "parse" /\ pc' = "parse") =>
        \A key \in ValueKeys :
            (rec'[key] # rec[key] \/ rec'[OkKey(key)] # rec[OkKey(key)]) =>
                /\ lineno' = lineno + 1
                /\ current_flash = SlotOf(key)
                /\ LineMatches(card_out[lineno], KindOf(key))

\* C4: the six value fields of a record start as 'n/a' with a false flag; a
\* field or its flag changes only on a line matching the field's pattern that
\* is processed while the parser context is the field's slot; a device whose
\* output has no matching line ends with all six fields 'n/a' and all flags
\* false.
C4_SentinelUntilMatch == []C4_State /\ [][C4_Step]_vars

\* Some fields of cf2 were written, those of cf3 still hold the sentinel.
C4_Witness ==
    /\ pc = "parse"
    /\ lineno = 4
    /\ rec.cf2_state = <<"up">>
    /\ rec.cf2_size # NA
    /\ rec.cf2_pct = NA
    /\ rec.cf3_state = NA

\* ---- C5 ------------------------------------------------------------
C5_State ==
    pc = "parse" =>
        /\ current_flash \in {None, "cf2", "cf3"}
        /\ lineno = 1 => current_flash = None

C5_Step ==
    (pc = "parse" /\ lineno' = lineno + 1) =>
        LET s == Strip(card_out[lineno])
        IN  /\ IF MatchCard(s) \/ StartsWithHardwareData(s)
               THEN current_flash' = None
               ELSE IF FlashGroup(s) # None
               THEN current_flash' = LowerAtom(FlashGroup(s))
               ELSE current_flash' = current_flash
            /\ current_flash = None => (rec' = rec /\ missing' = missing)

\* C5: current_flash is always one of none, cf2, cf3; it starts as none for each
\* device, becomes none on a card header or hardware-data header line, becomes
\* cf2 or cf3 on a matching flash-slot header line and is unchanged by every
\* other line; a line processed while the context is none leaves the record and
\* the missing-slot list unchanged.
C5_Context == []C5_State /\ [][C5_Step]_vars

\* A flash header set the context, a hardware-data header reset it, and the
\* field line that followed was ignored.
C5_Witness ==
    /\ pc = "parse"
    /\ lineno = 4
    /\ card_out = <<L_Flash3, L_Hardware, L_Pct59>>
    /\ current_flash = None
    /\ AllSentinel(rec)

\* ---- C6 ------------------------------------------------------------
\* The number a recorded size or percentage starts with.
Recorded(v) == ParseInt(SubSeq(v, 1, RunEnd(v, 1, Digits) - 1))

FlagsAgree(r) ==
    /\ r.cf2_state_ok <=> (r.cf2_state = <<"up">>)
    /\ r.cf3_state_ok <=> (r.cf3_state = <<"up">>)
    /\ r.cf2_size_ok <=> (r.cf2_size # NA /\ Abs(Recorded(r.cf2_size) - 3904) <= 1)
    /\ r.cf3_size_ok <=> (r.cf3_size # NA /\ Abs(Recorded(r.cf3_size) - 7800) <= 1)
    /\ r.cf2_pct_ok <=> (r.cf2_pct # NA /\ Recorded(r.cf2_pct) < 60)
    /\ r.cf3_pct_ok <=> (r.cf3_pct # NA /\ Recorded(r.cf3_pct) < 60)

\* C6: after every parsed line each flag agrees with the threshold rule applied
\* to the recorded value: state flag iff the state is 'up', size flag iff the
\* size is within 1 MB of 3904 MB (cf2) or 7800 MB (cf3), pct flag iff the
\* percentage is below 60.
C6_FlagsAgree == pc \in {"parse", "files"} => FlagsAgree(rec)

\* A size at the edge of the tolerance passed and a percentage of 60 failed.
C6_Witness ==
    /\ pc = "parse"
    /\ rec.cf2_size = <<"3", "9", "0", "5", " ", "MB">>
    /\ rec.cf2_size_ok
    /\ rec.cf2_pct = <<"6", "0", " ", "%">>
    /\ ~rec.cf2_pct_ok

\* ---- C7 ------------------------------------------------------------
IsBlankLine(l) == \A i \in 1..Len(l) : IsSpace(l[i])

RECURSIVE HostLines(_)
HostLines(f) ==
    IF f = <<>> THEN <<>>
    ELSE IF IsBlankLine(Head(f)) \/ (Head(f) # <<>> /\ Head(f)[1] = "#")
         THEN HostLines(Tail(f))
         ELSE <<Strip(Head(f))>> \o HostLines(Tail(f))

\* C7: the device list is the sequence of the stripped lines of the host file
\* that are neither blank nor comment lines starting with '#'; no entry of the
\* device list is empty and none starts with '#'.
C7_DeviceList ==
    pc # "read" =>
        /\ routers = HostLines(hostfile)
        /\ \A i \in 1..Len(routers) : routers[i] # <<>> /\ routers[i][1] # "#"

\* ---- C8 ------------------------------------------------------------
CellOrder == <<"cf2_size", "cf2_pct", "cf2_state", "cf3_size", "cf3_pct", "cf3_state">>

\* C8: the table has one row per summary record, in summary order, each with a
\* device cell and six status cells in the order cf2 size, pct, state, cf3 size,
\* pct, state; a cell is 'warn' when its value contains 'not equip', otherwise
\* 'ok' when its flag is true, otherwise 'fail'.
C8_Table ==
    pc = "done" =>
        /\ Len(written.html_rows) = Len(summary)
        /\ \A i \in 1..Len(summary) :
              LET row == written.html_rows[i]
                  r == summary[i]
              IN  /\ Len(row) = 7
                  /\ row[1].val = r.device
                  /\ \A j \in 1..6 :
                        /\ row[j + 1].val = r[CellOrder[j]]
                        /\ row[j + 1].cls =
                              IF ContainsNotEquip(r[CellOrder[j]]) THEN "warn"
                              ELSE IF r[OkKey(CellOrder[j])] THEN "ok"
                              ELSE "fail"
                        /\ row[j + 1].cls = "ok" => r[OkKey(CellOrder[j])]

\* A table of two rows showing a warn cell, an ok cell and a fail cell.
C8_Witness ==
    /\ pc = "done"
    /\ Len(written.html_rows) = 2
    /\ written.html_rows[1][7].cls = "warn"
    /\ written.html_rows[2][2].cls = "ok"
    /\ written.html_rows[2][5].cls = "fail"

\* ---- C9 ------------------------------------------------------------
\* The parser context before each line of out, and whether a state line with a
\* value containing 'not equip' is seen in a cf2 or cf3 context.
RECURSIVE ContextBefore(_, _)
ContextBefore(out, j) ==
    IF j = 1 THEN None
    ELSE LET s == Strip(out[j - 1])
         IN  IF MatchCard(s) \/ StartsWithHardwareData(s) THEN None
             ELSE IF FlashGroup(s) # None THEN LowerAtom(FlashGroup(s))
             ELSE ContextBefore(out, j - 1)

IsHeader(s) == MatchCard(s) \/ StartsWithHardwareData(s) \/ FlashGroup(s) # None

NotEquipLine(s) ==
    /\ s # <<>>
    /\ ~IsHeader(s)
    /\ \/ AdminGroup(s) # NoMatch /\ ContainsNotEquip(Lower(AdminGroup(s)))
       \/ OpGroup(s) # NoMatch /\ ContainsNotEquip(Lower(OpGroup(s)))

SeesNotEquip(out) ==
    \E j \in 1..Len(out) : ContextBefore(out, j) # None /\ NotEquipLine(Strip(out[j]))

RECURSIVE HostsMissing(_)
HostsMissing(raw) ==
    IF raw = <<>> THEN <<>>
    ELSE IF SeesNotEquip(Head(raw).body)
         THEN <<Head(raw).host>> \o HostsMissing(Tail(raw))
         ELSE HostsMissing(Tail(raw))

NoDuplicates(s) == \A i, j \in 1..Len(s) : s[i] = s[j] => i = j

\* C9: a host has an entry in not_equipped exactly when it was reachable and a
\* state line seen in a cf2 or cf3 context had a value containing 'not equip';
\* one entry per such host, in device-list order, each slot listed at most once.
C9_NotEquipped ==
    pc = "done" =>
        /\ [i \in 1..Len(not_equipped) |-> not_equipped[i][1]] = HostsMissing(raw_card)
        /\ \A i \in 1..Len(not_equipped) : NoDuplicates(not_equipped[i][2])

\* ---- C10 -----------------------------------------------------------
\* A flash-slot header of any slot: Flash - cfN.
AnyFlashSlot(s) ==
    IF s # <<>> /\ LowerAtom(s[1]) = "flash"
    THEN LET i == SkipSpaces(s, 2)
         IN  IF i <= Len(s) /\ s[i] = "-"
             THEN LET j == SkipSpaces(s, i + 1)
                  IN  IF j <= Len(s) /\ LowerAtom(s[j]) \in {"cf1", "cf2", "cf3"}
                      THEN LowerAtom(s[j])
                      ELSE None
             ELSE None
    ELSE None

\* The section line j of out lies in: the slot of the nearest header line
\* above it when that is a flash-slot header, else None.
RECURSIVE SectionOf(_, _)
SectionOf(out, j) ==
    IF j = 1 THEN None
    ELSE LET s == Strip(out[j - 1])
         IN  IF MatchCard(s) \/ StartsWithHardwareData(s) THEN None
             ELSE IF AnyFlashSlot(s) # None THEN AnyFlashSlot(s)
             ELSE SectionOf(out, j - 1)

\* C10: a field of cfN is written only by a line lying after a 'Flash - cfN'
\* header and before the next header line of any kind, the headers of flash
\* slots other than cf2 and cf3 included.
C10_OwnSection ==
    [][ (pc = "parse" /\ pc' = "parse") =>
            \A key \in ValueKeys :
                rec'[key] # rec[key] => SectionOf(card_out, lineno) = SlotOf(key) ]_vars

====
